---- MODULE Spec2Model ----
(***************************************************************************)
(* Lint / type-check orchestration and JUnit report aggregation:           *)
(*   scripts/eslint (index.js, eslint.utils.js), scripts/shared/reporting.js *)
(*   and scripts/tasks/flow.js.                                            *)
(*                                                                         *)
(* JavaScript strings are modelled as sequences of one-character strings,  *)
(* so that startsWith / endsWith / replace / template concatenation are    *)
(* computed character by character, as the engine computes them.           *)
(***************************************************************************)
EXTENDS Integers, Sequences, FiniteSets, TLC

----------------------------------------------------------------------------
(* String primitives of String.prototype                                   *)

Min(S) == CHOOSE x \in S : \A y \in S : x <= y

Max(S) == CHOOSE x \in S : \A y \in S : y <= x

\* s.startsWith(p)
startsWith(s, p) == Len(s) >= Len(p) /\ SubSeq(s, 1, Len(p)) = p

\* s.endsWith(p)
endsWith(s, p) == Len(s) >= Len(p) /\ SubSeq(s, Len(s) - Len(p) + 1, Len(s)) = p

\* The positions i >= from at which p occurs in s.
Occurrences(s, p, from) ==
    {i \in from..(Len(s) - Len(p) + 1) : SubSeq(s, i, i + Len(p) - 1) = p}

\* s.indexOf(p, from), 1-based; 0 when p does not occur.
IndexOf(s, p, from) ==
    IF Occurrences(s, p, from) = {} THEN 0 ELSE Min(Occurrences(s, p, from))

\* s.lastIndexOf(p), 1-based; 0 when p does not occur.
LastIndexOf(s, p) ==
    IF Occurrences(s, p, 1) = {} THEN 0 ELSE Max(Occurrences(s, p, 1))

\* s.includes(p)
Includes(s, p) == Occurrences(s, p, 1) # {}

\* s.replace(p, r) with a string pattern: only the FIRST occurrence of p is
\* replaced; s is returned unchanged when p does not occur.
replace(s, p, r) ==
    LET i == IndexOf(s, p, 1)
    IN  IF i = 0 THEN s
        ELSE SubSeq(s, 1, i - 1) \o r \o SubSeq(s, i + Len(p), Len(s))

Lower ==
    <<"a", "b", "c", "d", "e", "f", "g", "h", "i", "j", "k", "l", "m",
      "n", "o", "p", "q", "r", "s", "t", "u", "v", "w", "x", "y", "z">>

Upper ==
    <<"A", "B", "C", "D", "E", "F", "G", "H", "I", "J", "K", "L", "M",
      "N", "O", "P", "Q", "R", "S", "T", "U", "V", "W", "X", "Y", "Z">>

\* s.toUpperCase() on ASCII text
toUpperCase(s) ==
    [i \in 1..Len(s) |->
        IF \E k \in 1..Len(Lower) : Lower[k] = s[i]
        THEN Upper[CHOOSE k \in 1..Len(Lower) : Lower[k] = s[i]]
        ELSE s[i]]

Digits == <<"0", "1", "2", "3", "4", "5", "6", "7", "8", "9">>

\* `${n}` for a non-negative integer n: its decimal digits
RECURSIVE NumberToString(_)
NumberToString(n) ==
    IF n < 10 THEN <<Digits[n + 1]>>
    ELSE NumberToString(n \div 10) \o <<Digits[(n % 10) + 1]>>

\* parts.join(sep)
RECURSIVE join(_, _)
join(parts, sep) ==
    IF parts = <<>> THEN <<>>
    ELSE IF Len(parts) = 1 THEN parts[1]
    ELSE parts[1] \o sep \o join(Tail(parts), sep)

\* All sequences over S of length at most n
SeqsUpTo(S, n) == UNION {[1..k -> S] : k \in 0..n}

----------------------------------------------------------------------------
(* Program constants                                                       *)

FORMATTER_FLAG ==
    <<"-", "-", "f", "o", "r", "m", "a", "t", "t", "e", "r", "=">>

OUTPUT_FLAG ==
    <<"-", "-", "o", "u", "t", "p", "u", "t", "=">>

DEFAULT_FORMATTER_NAME ==
    <<"s", "t", "y", "l", "i", "s", "h">>

XmlExt ==
    <<".", "x", "m", "l">>

----------------------------------------------------------------------------
(* State                                                                   *)

VARIABLES
    \* eslint.utils: one call of getFormatterConfigFromProcessArgs
    processArgs,        \* the argument tokens handed to the call
    config,             \* its return value, NoValue before the call
    \* reporting: one call of buildXMLOutputAsSingleTest
    data,               \* parameter data
    packageName,        \* parameter packageName
    hasPassed,          \* parameter hasPassed
    xmlOutput,          \* its return value, NoValue before the call
    \* reporting: one call of getPartialJUnitReportFileName
    baseFileName,       \* parameter baseFileName
    index,              \* parameter index
    partialName,        \* its outcome, NoValue before the call
    \* the process environment and the file system
    REPORT_FORMATTER,   \* process.env.REPORT_FORMATTER
    REPORT_DIR,         \* process.env.REPORT_DIR
    task,               \* the script this node process runs
    lintVariant,        \* which revision of eslint/index.js is loaded
    formatterConfig,    \* eslint/index.js: getFormatterConfig(), read at load
    files,              \* regular files on disk: records [path, content]
    dirs,               \* directories on disk
    \* reporting: the caller's list of partial report file names
    reportFileNames,
    mergeRuns,          \* number of times the merge utility was executed
    unlinkLog,          \* fs.unlinkSync attempts of the last merge call
    \* eslint/index.js
    eslintTemporaryFiles,
    changedFiles,       \* module-level cache, Null until computed
    diffCalls,          \* number of listChangedFiles() invocations
    engineCalls,        \* cli.executeOnFiles calls of the last runESLint
    lintRuns,           \* number of runESLint calls made
    lintResults,        \* the three bucket results of the last runESLint
    \* tasks/flow.js
    createReport,       \* the current createReport closure
    reportChunks,
    stdoutChunks,       \* every stdout chunk the child emitted, in order
    proc,               \* the node process: running or exited with a code
    \* the last library call or event handler that ran, and how it ended
    lastCall

NoValue == [kind |-> "none"]

argsVars == <<processArgs, config>>

xmlVars == <<data, packageName, hasPassed, xmlOutput>>

nameVars == <<baseFileName, index, partialName>>

envVars == <<REPORT_FORMATTER, REPORT_DIR, task, lintVariant, formatterConfig>>

fsVars == <<files, dirs>>

reportVars == <<reportFileNames, mergeRuns, unlinkLog>>

lintVars ==
    <<eslintTemporaryFiles, changedFiles, diffCalls, engineCalls, lintRuns, lintResults>>

flowVars == <<createReport, reportChunks, stdoutChunks>>

mainVars == <<envVars, fsVars, reportVars, lintVars, flowVars, proc, lastCall>>

pureVars == <<argsVars, xmlVars, nameVars>>

vars == <<pureVars, mainVars>>

Null == [kind |-> "null"]

Noop == [kind |-> "noop"]

Running == [status |-> "running"]

Exited(code) == [status |-> "exited", code |-> code]

\* lastCall: the operation, its buildStep argument (when it has one), how
\* the merge utility ended (merge only) and the call's outcome.
Call(op, step, exec, outcome) ==
    [op |-> op, step |-> step, exec |-> exec, outcome |-> outcome]

NoCall == Call("none", <<>>, "none", NoValue)

ArgsIdle == processArgs = <<>> /\ config = NoValue

XmlIdle == data = <<>> /\ packageName = <<>> /\ hasPassed = TRUE /\ xmlOutput = NoValue

NameIdle == baseFileName = <<>> /\ index = 0 /\ partialName = NoValue

\* The process before any call: nothing on disk but the working directory
\* and the root, empty registries, no cache, the no-op createReport.
MainStart ==
    /\ files = {}
    /\ dirs = {<<".">>, <<"/">>}
    /\ reportFileNames = <<>> /\ mergeRuns = 0 /\ unlinkLog = <<>>
    /\ eslintTemporaryFiles = <<>> /\ changedFiles = Null /\ diffCalls = 0
    /\ engineCalls = <<>> /\ lintRuns = 0 /\ lintResults = <<>>
    /\ createReport = Noop /\ reportChunks = <<>> /\ stdoutChunks = <<>>
    /\ proc = Running
    /\ lastCall = NoCall

MainIdle ==
    /\ REPORT_FORMATTER = "" /\ REPORT_DIR = <<>>
    /\ task = "none" /\ lintVariant = "multiFile"
    /\ formatterConfig = NoValue
    /\ MainStart

----------------------------------------------------------------------------
(* eslint.utils.js: getFormatterConfigFromProcessArgs                      *)

\* One iteration of the for-of loop: both ifs are evaluated for every token.
ConfigStep(cfg, arg) ==
    LET c1 == IF startsWith(arg, FORMATTER_FLAG)
              THEN [cfg EXCEPT !.name = replace(arg, FORMATTER_FLAG, <<>>)]
              ELSE cfg
    IN  IF startsWith(arg, OUTPUT_FLAG)
        THEN [c1 EXCEPT !.outputFile = replace(arg, OUTPUT_FLAG, <<>>)]
        ELSE c1

RECURSIVE ConfigLoop(_, _)
ConfigLoop(cfg, args) ==
    IF args = <<>> THEN cfg
    ELSE ConfigLoop(ConfigStep(cfg, Head(args)), Tail(args))

\* A plausible slip: the first matching token wins (the loop stops updating a
\* key once it is set).
RECURSIVE ConfigLoopFirstWins(_, _, _, _)
ConfigLoopFirstWins(cfg, args, seenName, seenOut) ==
    IF args = <<>> THEN cfg
    ELSE LET a  == Head(args)
             isF == startsWith(a, FORMATTER_FLAG)
             isO == startsWith(a, OUTPUT_FLAG)
             c1 == IF isF /\ ~seenName
                   THEN [cfg EXCEPT !.name = replace(a, FORMATTER_FLAG, <<>>)]
                   ELSE cfg
             c2 == IF isO /\ ~seenOut
                   THEN [c1 EXCEPT !.outputFile = replace(a, OUTPUT_FLAG, <<>>)]
                   ELSE c1
         IN  ConfigLoopFirstWins(c2, Tail(args), seenName \/ isF, seenOut \/ isO)

getFormatterConfigFirstWins(args) ==
    ConfigLoopFirstWins([name |-> DEFAULT_FORMATTER_NAME, outputFile |-> <<>>],
                        args, FALSE, FALSE)

getFormatterConfigFromProcessArgs(args) ==
    ConfigLoop([name |-> DEFAULT_FORMATTER_NAME, outputFile |-> <<>>], args)

\* Bounds of the argument lists explored
MaxArgs == 3

Tokens ==
    { FORMATTER_FLAG \o <<"j", "u", "n", "i", "t">>,
      FORMATTER_FLAG \o <<"c">>,
      FORMATTER_FLAG,
      FORMATTER_FLAG \o FORMATTER_FLAG \o <<"x">>,
      <<"x">> \o FORMATTER_FLAG \o <<"a">>,
      OUTPUT_FLAG \o <<"r", ".", "x", "m", "l">>,
      OUTPUT_FLAG \o FORMATTER_FLAG \o <<"j">>,
      <<"H", "i">> }

InitArgs ==
    /\ processArgs \in SeqsUpTo(Tokens, MaxArgs)
    /\ config = NoValue
    /\ XmlIdle /\ NameIdle /\ MainIdle

ParseArgs ==
    /\ config = NoValue
    /\ config' = [kind |-> "returned",
                  value |-> getFormatterConfigFromProcessArgs(processArgs)]
    /\ UNCHANGED <<processArgs, xmlVars, nameVars, mainVars>>

NextArgs == ParseArgs

SpecArgs == InitArgs /\ [][NextArgs]_vars

\* The suffix after flag of the last token of args that starts with flag,
\* or dflt when no token starts with it.
SuffixOfLast(args, flag, dflt) ==
    LET I == {i \in 1..Len(args) : startsWith(args[i], flag)}
    IN  IF I = {} THEN dflt
        ELSE SubSeq(args[Max(I)], Len(flag) + 1, Len(args[Max(I)]))

\* C1: for every argument list the returned name is the suffix after
\* '--formatter=' of the last token starting with it ('stylish' when there is
\* none) and outputFile the suffix after '--output=' of the last token starting
\* with it ('' when there is none); nothing else in the list matters.
C1_LastWins ==
    config.kind = "returned" =>
        /\ config.value.name =
              SuffixOfLast(processArgs, FORMATTER_FLAG, DEFAULT_FORMATTER_NAME)
        /\ config.value.outputFile = SuffixOfLast(processArgs, OUTPUT_FLAG, <<>>)

\* Two different --formatter= tokens around an --output= token and the call
\* has returned.
C1_Witness ==
    /\ config.kind = "returned"
    /\ Len(processArgs) = 3
    /\ startsWith(processArgs[1], FORMATTER_FLAG)
    /\ startsWith(processArgs[2], OUTPUT_FLAG)
    /\ startsWith(processArgs[3], FORMATTER_FLAG)
    /\ processArgs[1] # processArgs[3]

----------------------------------------------------------------------------
(* reporting.js: buildXMLOutputAsSingleTest                                *)

\* The literal parts of the three template strings, in source order.
FailureOpen ==
    <<"\n", " ", " ", " ", " ", " ", " ", "<", "f", "a", "i", "l", "u", "r", "e", " ", "m",
    "e", "s", "s", "a", "g", "e", "=", "\"", "\"", ">", "<", "!", "[", "C", "D", "A", "T", "A",
    "[", "\n">>

FailureClose ==
    <<"\n", " ", " ", " ", " ", " ", " ", "]", "]", ">", "\n", " ", " ", " ", " ", " ", " ",
    "<", "/", "f", "a", "i", "l", "u", "r", "e", ">", "\n", " ", " ">>

SuiteOpen ==
    <<"\n", " ", " ", " ", " ", "<", "t", "e", "s", "t", "s", "u", "i", "t", "e", " ", "p",
    "a", "c", "k", "a", "g", "e", "=", "\"">>

SuiteTests ==
    <<"\"", " ", "t", "i", "m", "e", "=", "\"", "0", "\"", " ", "t", "e", "s", "t", "s", "=",
    "\"", "1", "\"", " ", "e", "r", "r", "o", "r", "s", "=", "\"">>

SuiteName ==
    <<"\"", " ", "n", "a", "m", "e", "=", "\"">>

CaseOpen ==
    <<"\"", ">", "\n", " ", " ", " ", " ", " ", " ", "<", "t", "e", "s", "t", "c", "a", "s",
    "e", " ", "t", "i", "m", "e", "=", "\"", "0", "\"", " ", "n", "a", "m", "e", "=", "\"">>

CaseName ==
    <<" ", "m", "e", "r", "g", "e", "d", " ", "r", "e", "p", "o", "r", "t", "\"", ">", "\n">>

CaseClose ==
    <<"\n", " ", " ", " ", " ", " ", " ", "<", "/", "t", "e", "s", "t", "c", "a", "s", "e",
    ">", "\n", " ", " ", " ", " ", "<", "/", "t", "e", "s", "t", "s", "u", "i", "t", "e", ">",
    "\n", " ", " ">>

DocOpen ==
    <<"<", "?", "x", "m", "l", " ", "v", "e", "r", "s", "i", "o", "n", "=", "\"", "1", ".",
    "0", "\"", "?", ">", "\n", " ", " ", "<", "t", "e", "s", "t", "s", "u", "i", "t", "e", "s",
    ">", "\n", " ", " ", " ", " ">>

DocClose ==
    <<"\n", " ", " ", "<", "/", "t", "e", "s", "t", "s", "u", "i", "t", "e", "s", ">", "\n",
    " ", " ">>

buildXMLOutputAsSingleTest(d, pkg, passed) ==
    LET nbrErrors       == IF passed THEN 0 ELSE 1
        detailedMessage == IF passed THEN <<>>
                           ELSE FailureOpen \o d \o FailureClose
        testSuite       ==
            SuiteOpen \o pkg \o SuiteTests \o NumberToString(nbrErrors)
            \o SuiteName \o toUpperCase(pkg) \o CaseOpen \o pkg \o CaseName
            \o detailedMessage \o CaseClose
    IN  DocOpen \o testSuite \o DocClose

\* Inputs explored: tool outputs with and without XML markup in them, and
\* build step names.
Hello == <<"H", "e", "l", "l", "o">>

CDataEnd == <<"]", "]", ">">>

CDataStart == <<"<", "!", "[", "C", "D", "A", "T", "A", "[">>

DataSet ==
    { <<>>,
      Hello,
      <<"a", "\n", "b">>,
      <<"a", " ", "<", " ", "b">>,
      <<"<", "f", "a", "i", "l", "u", "r", "e", " ", "x", ">">>,
      <<"a", "[", "b", "[", "0", "]", "]", ">", "c">>,
      <<"]", "]">>,
      <<"&", "a", "m", "p", ";">> }

FlowStep == <<"f", "l", "o", "w">>

PackageSet ==
    { FlowStep,
      <<"e", "s", "l", "i", "n", "t">>,
      <<"j", "e", "s", "t", "-", "2">>,
      <<"X">> }

InitXml ==
    /\ data \in DataSet
    /\ packageName \in PackageSet
    /\ hasPassed \in BOOLEAN
    /\ xmlOutput = NoValue
    /\ ArgsIdle /\ NameIdle /\ MainIdle

BuildXml ==
    /\ xmlOutput = NoValue
    /\ xmlOutput' = [kind |-> "returned",
                     value |-> buildXMLOutputAsSingleTest(data, packageName, hasPassed)]
    /\ UNCHANGED <<data, packageName, hasPassed, argsVars, nameVars, mainVars>>

NextXml == BuildXml

SpecXml == InitXml /\ [][NextXml]_vars

\* Reading the document back as an XML parser does: a CDATA section runs from
\* "<![CDATA[" to the first "]]>" after it, and markup inside it is text.
RECURSIVE CDataSections(_, _)
CDataSections(x, from) ==
    LET s == IndexOf(x, CDataStart, from)
        e == IF s = 0 THEN 0 ELSE IndexOf(x, CDataEnd, s + Len(CDataStart))
    IN  IF s = 0 THEN {}
        ELSE IF e = 0 THEN {[first |-> s, last |-> Len(x)]}
        ELSE {[first |-> s, last |-> e + Len(CDataEnd) - 1]}
             \cup CDataSections(x, e + Len(CDataEnd))

InCData(x, i) == \E c \in CDataSections(x, 1) : c.first <= i /\ i <= c.last

\* Number of start tags <tag ...> of the document (outside CDATA)
ElementCount(x, tag) ==
    Cardinality({i \in Occurrences(x, <<"<">> \o tag, 1) :
                    /\ ~InCData(x, i)
                    /\ i + Len(tag) + 1 <= Len(x)
                    /\ x[i + Len(tag) + 1] \in {" ", ">", "/"}})

\* The value of the first attribute attr="..." of the document
AttributeValue(x, attr) ==
    LET open == attr \o <<"=", "\"">>
        s    == IndexOf(x, open, 1)
        e    == IF s = 0 THEN 0 ELSE IndexOf(x, <<"\"">>, s + Len(open))
    IN  IF s = 0 \/ e = 0 THEN NoValue ELSE SubSeq(x, s + Len(open), e - 1)

\* The character data of the document's first CDATA section
CDataBody(x) ==
    LET s == IndexOf(x, CDataStart, 1)
        e == IF s = 0 THEN 0 ELSE IndexOf(x, CDataEnd, s + Len(CDataStart))
    IN  IF s = 0 \/ e = 0 THEN NoValue ELSE SubSeq(x, s + Len(CDataStart), e - 1)

TestSuiteTag == <<"t", "e", "s", "t", "s", "u", "i", "t", "e">>

TestCaseTag == <<"t", "e", "s", "t", "c", "a", "s", "e">>

FailureTag == <<"f", "a", "i", "l", "u", "r", "e">>

TestsAttr == <<"t", "e", "s", "t", "s">>

ErrorsAttr == <<"e", "r", "r", "o", "r", "s">>

\* The shape C2 states of a report x built from (d, passed)
SingleTestReport(x, d, passed) ==
    /\ ElementCount(x, TestSuiteTag) = 1
    /\ AttributeValue(x, TestsAttr) = <<"1">>
    /\ ElementCount(x, TestCaseTag) = 1
    /\ AttributeValue(x, ErrorsAttr) \in {<<"0">>, <<"1">>}
    /\ passed => /\ AttributeValue(x, ErrorsAttr) = <<"0">>
                 /\ ElementCount(x, FailureTag) = 0
    /\ ~passed => /\ AttributeValue(x, ErrorsAttr) = <<"1">>
                  /\ ElementCount(x, FailureTag) = 1
                  /\ CDataBody(x) # NoValue
                  /\ Includes(CDataBody(x), d)

\* C2: for every data string, package name and pass flag the built document has
\* exactly one testsuite with tests="1" and one testcase; errors is "0" with no
\* failure element when hasPassed, and "1" with exactly one failure element
\* whose CDATA body contains the data verbatim when not.
C2_SingleTestReport ==
    xmlOutput.kind = "returned" =>
        SingleTestReport(xmlOutput.value, data, hasPassed)

\* The same statement for tool output that holds no CDATA terminator: the
\* part of C2 the code does satisfy.
C2_HoldsWithoutTerminator ==
    (xmlOutput.kind = "returned" /\ ~Includes(data, CDataEnd)) =>
        SingleTestReport(xmlOutput.value, data, hasPassed)

----------------------------------------------------------------------------
(* reporting.js: getPartialJUnitReportFileName                             *)

\* The outcome of a call: a returned value or a thrown Error.
Returned(v) == [kind |-> "returned", value |-> v]

Threw(msg) == [kind |-> "threw", message |-> msg]

getPartialJUnitReportFileName(base, i) ==
    IF ~endsWith(base, XmlExt)
    THEN Threw("Invalid XML file name provided")
    ELSE Returned(replace(base, XmlExt, NumberToString(i) \o XmlExt))

\* Bound on the indices explored (two-digit indices included)
MaxIndex == 10

BaseNames ==
    { <<"b", "a", "s", "e">> \o XmlExt,
      <<"r", "/", "f">> \o XmlExt,
      <<"a">> \o XmlExt \o XmlExt,
      <<"r">> \o XmlExt \o <<"/", "f">> \o XmlExt,
      XmlExt,
      <<"b", "a", "s", "e", ".", "t", "x", "t">>,
      <<"b">> \o XmlExt \o <<"x">>,
      <<"a">> \o XmlExt \o <<"/", "f">>,
      <<"x", "m", "l">>,
      <<>> }

InitName ==
    /\ baseFileName \in BaseNames
    /\ index \in 0..MaxIndex
    /\ partialName = NoValue
    /\ ArgsIdle /\ XmlIdle /\ MainIdle

PartialName ==
    /\ partialName = NoValue
    /\ partialName' = getPartialJUnitReportFileName(baseFileName, index)
    /\ UNCHANGED <<baseFileName, index, argsVars, xmlVars, mainVars>>

NextName == PartialName

SpecName == InitName /\ [][NextName]_vars

\* base without its trailing '.xml', then i, then '.xml'
IndexBeforeExtension(base, i) ==
    SubSeq(base, 1, Len(base) - Len(XmlExt)) \o NumberToString(i) \o XmlExt

\* C3: a base name ending in '.xml' gives the base with the index inserted
\* immediately before its final '.xml', also when '.xml' occurs earlier in the
\* name or path; any other base name raises an error and returns no name.
C3_IndexBeforeFinalExtension ==
    partialName # NoValue =>
        IF endsWith(baseFileName, XmlExt)
        THEN partialName = Returned(IndexBeforeExtension(baseFileName, index))
        ELSE partialName.kind = "threw"

\* What the code does satisfy: the index goes before the FIRST '.xml' of the
\* base name, which is the final one only when '.xml' occurs once.
C3_IndexBeforeFirstExtension ==
    partialName # NoValue =>
        IF endsWith(baseFileName, XmlExt)
        THEN /\ partialName.kind = "returned"
             /\ (Cardinality(Occurrences(baseFileName, XmlExt, 1)) = 1 =>
                    partialName.value = IndexBeforeExtension(baseFileName, index))
        ELSE partialName.kind = "threw"

----------------------------------------------------------------------------
(* The file system, as fs and path are used                                *)

Exists(fs, p) == \E f \in fs : f.path = p

Content(fs, p) == (CHOOSE f \in fs : f.path = p).content

\* A plausible slip: the write reports success and stores nothing.
WriteFileNot(fs, p, c) == fs

\* fs.writeFileSync(p, c): creates or overwrites
WriteFile(fs, p, c) == {f \in fs : f.path # p} \cup {[path |-> p, content |-> c]}

\* A plausible slip: the unlink reports success and leaves the file.
RemoveFileNot(fs, p) == fs

\* fs.unlinkSync(p) when it succeeds
RemoveFile(fs, p) == {f \in fs : f.path # p}

Slash == <<"/">>

\* path.dirname(p)
dirname(p) ==
    LET i == LastIndexOf(p, Slash)
    IN  IF i = 0 THEN <<".">>
        ELSE IF i = 1 THEN Slash
        ELSE SubSeq(p, 1, i - 1)

\* createDirectoriesIfMissing(filePath): the directories afterwards
RECURSIVE createDirectoriesIfMissing(_, _)
createDirectoriesIfMissing(filePath, ds) ==
    IF dirname(filePath) \in ds THEN ds
    ELSE createDirectoriesIfMissing(dirname(filePath), ds) \cup {dirname(filePath)}

----------------------------------------------------------------------------
(* reporting.js                                                            *)

\* A plausible slip: any REPORT_FORMATTER other than the default enables
\* JUnit mode.
isJUnitEnabledLoose == REPORT_FORMATTER # ""

isJUnitEnabled == REPORT_FORMATTER = "junit"

ResultsSuffix == <<"-", "r", "e", "s", "u", "l", "t", "s", ".", "x", "m", "l">>

reportFilePath(buildStep) == REPORT_DIR \o Slash \o buildStep \o ResultsSuffix

Undefined == <<"u", "n", "d", "e", "f", "i", "n", "e", "d">>

\* writeReportAsSingleTest via writeJunitReport: the file system afterwards
\* when the write succeeds.
writeJunitReport(fs, buildStep, d, stepHasSucceeded) ==
    WriteFile(fs, reportFilePath(buildStep),
              buildXMLOutputAsSingleTest(d, buildStep, stepHasSucceeded))

\* Bounds of the reporting calls explored
MaxPartials == 2

MaxPartialIndex == 1

MaxMerges == 2

EslintStep == <<"e", "s", "l">>

BuildSteps == {EslintStep}

PartialData == {<<"p">>, <<"q">>}

\* writePartialJunitReport(buildStep, data, index, reportFileNames).
\* writeOk: whether fs.writeFileSync succeeds.
WritePartialJunitReport ==
    /\ task = "report"
    /\ proc = Running
    /\ Len(reportFileNames) < MaxPartials
    /\ \E buildStep \in BuildSteps, d \in PartialData,
          i \in 0..MaxPartialIndex, writeOk \in BOOLEAN :
          LET op       == "writePartialJunitReport"
              fileName == getPartialJUnitReportFileName(reportFilePath(buildStep), i)
          IN  IF ~isJUnitEnabled
              THEN /\ lastCall' = Call(op, buildStep, "none", Returned(Undefined))
                   /\ UNCHANGED <<fsVars, reportFileNames>>
              ELSE IF fileName.kind = "threw"
              THEN /\ lastCall' = Call(op, buildStep, "none", fileName)
                   /\ UNCHANGED <<fsVars, reportFileNames>>
              ELSE /\ dirs' = createDirectoriesIfMissing(fileName.value, dirs)
                   /\ IF writeOk
                      THEN /\ files' = WriteFile(files, fileName.value, d)
                           /\ reportFileNames' = Append(reportFileNames, fileName.value)
                           /\ lastCall' = Call(op, buildStep, "none", Returned(Undefined))
                      ELSE /\ lastCall' = Call(op, buildStep, "none",
                                               Threw("fs.writeFileSync failed"))
                           /\ UNCHANGED <<files, reportFileNames>>
    /\ UNCHANGED <<pureVars, envVars, mergeRuns, unlinkLog, lintVars, flowVars, proc>>

MergeErrorHead ==
    <<"c", "o", "u", "l", "d", " ", "n", "o", "t", " ", "c", "r", "e", "a", "t", "e", " ",
      "f", "o", "r", " ", "t", "h", "e", " ", "s", "t", "e", "p", " ">>

MergeErrorMiddle ==
    <<" ", "t", "h", "e", " ", "J", "U", "n", "i", "t", " ", "m", "e", "r", "g", "e", "d",
      " ", "r", "e", "p", "o", "r", "t", " ", "f", "i", "l", "e", " ">>

\* The message of the Error thrown when the merge utility fails
MergeErrorMessage(buildStep) ==
    MergeErrorHead \o buildStep \o MergeErrorMiddle \o reportFilePath(buildStep)

\* What junit-merge leaves in the --out file: the partial reports it was
\* given that exist, put together.
MergedContent(fs, names) ==
    join([i \in 1..Len(names) |->
             IF Exists(fs, names[i]) THEN Content(fs, names[i]) ELSE <<>>], <<"+">>)

\* A plausible slip: the loop is left at the first unlink that throws (a
\* try/catch around the forEach instead of inside it).
RECURSIVE UnlinkEachStopAtFailure(_, _, _, _, _)
UnlinkEachStopAtFailure(fs, names, refused, i, log) ==
    IF i > Len(names) THEN [files |-> fs, log |-> log]
    ELSE LET ok == Exists(fs, names[i]) /\ i \notin refused
         IN  IF ~ok
             THEN [files |-> fs,
                   log |-> Append(log, [file |-> names[i], deleted |-> FALSE])]
             ELSE UnlinkEachStopAtFailure(RemoveFile(fs, names[i]), names, refused,
                                          i + 1,
                                          Append(log, [file |-> names[i],
                                                       deleted |-> TRUE]))

\* reportFileNames.forEach(file => { try { fs.unlinkSync(file) } catch ... }):
\* the file system and the log of attempts after the files from position i on.
\* An unlink fails when the file is missing or when the environment refuses
\* it (the positions in refused).
RECURSIVE UnlinkEach(_, _, _, _, _)
UnlinkEach(fs, names, refused, i, log) ==
    IF i > Len(names) THEN [files |-> fs, log |-> log]
    ELSE LET ok == Exists(fs, names[i]) /\ i \notin refused
         IN  UnlinkEach(IF ok THEN RemoveFile(fs, names[i]) ELSE fs,
                        names, refused, i + 1,
                        Append(log, [file |-> names[i], deleted |-> ok]))

\* A plausible slip: the catch block removes the partial reports before it
\* rethrows.
MergeOutcomeCleansUp(buildStep, execOk, refused) ==
    LET op == "mergePartialJunitReports"
    IN  IF ~isJUnitEnabled
        THEN [files |-> files, runs |-> mergeRuns, log |-> unlinkLog,
              call |-> Call(op, buildStep, "none", Returned(Undefined))]
        ELSE LET merged == IF execOk
                           THEN WriteFile(files, reportFilePath(buildStep),
                                          MergedContent(files, reportFileNames))
                           ELSE files
                 after  == UnlinkEach(merged, reportFileNames, refused, 1, <<>>)
             IN  [files |-> after.files, runs |-> mergeRuns + 1, log |-> after.log,
                  call |-> IF execOk
                           THEN Call(op, buildStep, "ok", Returned(Undefined))
                           ELSE Call(op, buildStep, "failed",
                                     Threw(MergeErrorMessage(buildStep)))]

\* mergePartialJunitReports(buildStep, reportFileNames).
\* execOk: whether execSync(junit-merge ...) succeeds.
MergeOutcome(buildStep, execOk, refused) ==
    LET op == "mergePartialJunitReports"
    IN  IF ~isJUnitEnabled
        THEN [files |-> files, runs |-> mergeRuns, log |-> unlinkLog,
              call |-> Call(op, buildStep, "none", Returned(Undefined))]
        ELSE IF ~execOk
        THEN [files |-> files, runs |-> mergeRuns + 1, log |-> <<>>,
              call |-> Call(op, buildStep, "failed",
                            Threw(MergeErrorMessage(buildStep)))]
        ELSE LET merged == WriteFile(files, reportFilePath(buildStep),
                                     MergedContent(files, reportFileNames))
                 after  == UnlinkEach(merged, reportFileNames, refused, 1, <<>>)
             IN  [files |-> after.files, runs |-> mergeRuns + 1, log |-> after.log,
                  call |-> Call(op, buildStep, "ok", Returned(Undefined))]

MergePartialJunitReports ==
    /\ task = "report"
    /\ proc = Running
    /\ mergeRuns < MaxMerges
    /\ \E buildStep \in BuildSteps, execOk \in BOOLEAN,
          refused \in SUBSET (1..Len(reportFileNames)) :
          LET out == MergeOutcome(buildStep, execOk, refused)
          IN  /\ files' = out.files
              /\ mergeRuns' = out.runs
              /\ unlinkLog' = out.log
              /\ lastCall' = out.call
    /\ UNCHANGED <<pureVars, envVars, dirs, reportFileNames, lintVars, flowVars, proc>>

----------------------------------------------------------------------------
(* tasks/flow.js                                                           *)

\* Bound on the number of stdout 'data' events before 'close'
MaxChunks == 2

Chunks == {<<"A">>, <<"B">>}

ExitCodes == {0, 1, 2}

\* The exit code of a node process that dies of an uncaught exception
UncaughtExceptionCode == 1

Closure(chunk) == [kind |-> "closure", data |-> chunk]

\* flow.stdout.on('data', data => { createReport = ... }), registered only when
\* JUnit mode is enabled: each event replaces createReport by a closure over
\* that event's chunk.
FlowStdoutData ==
    /\ task = "flow"
    /\ proc = Running
    /\ isJUnitEnabled
    /\ Len(stdoutChunks) < MaxChunks
    /\ \E chunk \in Chunks :
          /\ createReport' = Closure(chunk)
          /\ stdoutChunks' = Append(stdoutChunks, chunk)
    /\ lastCall' = Call("flow.stdout.data", FlowStep, "none", Returned(Undefined))
    /\ UNCHANGED <<pureVars, envVars, fsVars, reportVars, lintVars, reportChunks, proc>>

\* A plausible slip: process.exit() called without the child's code.
flowOnCloseExitZero(code, writeOk) ==
    LET stepHasSucceeded == (code = 0)
    IN  IF createReport = Noop
        THEN [files |-> files, dirs |-> dirs, reportChunks |-> reportChunks,
              proc |-> Exited(0)]
        ELSE [files |-> IF writeOk
                        THEN writeJunitReport(files, FlowStep, createReport.data,
                                              stepHasSucceeded)
                        ELSE files,
              dirs |-> createDirectoriesIfMissing(reportFilePath(FlowStep), dirs),
              reportChunks |-> IF ~stepHasSucceeded
                               THEN Append(reportChunks, createReport.data)
                               ELSE reportChunks,
              proc |-> IF writeOk THEN Exited(0) ELSE Exited(UncaughtExceptionCode)]

\* flow.on('close', code => ...): createReport(code === 0), then
\* process.exit(code).  createReport is the no-op or the closure of the last
\* 'data' event, which pushes its chunk on failure and writes the report.
\* writeOk: whether the report's fs.writeFileSync succeeds; when it throws,
\* the handler is left by the exception and process.exit(code) is not reached.
flowOnClose(code, writeOk) ==
    LET stepHasSucceeded == (code = 0)
    IN  IF createReport = Noop
        THEN [files |-> files, dirs |-> dirs, reportChunks |-> reportChunks,
              proc |-> Exited(code)]
        ELSE [files |-> IF writeOk
                        THEN writeJunitReport(files, FlowStep, createReport.data,
                                              stepHasSucceeded)
                        ELSE files,
              dirs |-> createDirectoriesIfMissing(reportFilePath(FlowStep), dirs),
              reportChunks |-> IF ~stepHasSucceeded
                               THEN Append(reportChunks, createReport.data)
                               ELSE reportChunks,
              proc |-> IF writeOk THEN Exited(code) ELSE Exited(UncaughtExceptionCode)]

FlowClose ==
    /\ task = "flow"
    /\ proc = Running
    /\ \E code \in ExitCodes, writeOk \in BOOLEAN :
          LET out == flowOnClose(code, writeOk)
          IN  /\ files' = out.files
              /\ dirs' = out.dirs
              /\ reportChunks' = out.reportChunks
              /\ proc' = out.proc
              /\ lastCall' = Call("flow.close", FlowStep,
                                  IF createReport = Noop THEN "none"
                                  ELSE IF writeOk THEN "ok" ELSE "failed",
                                  Returned(code))
    /\ UNCHANGED <<pureVars, envVars, reportVars, lintVars, createReport, stdoutChunks>>

----------------------------------------------------------------------------
(* eslint/index.js                                                         *)

\* Glob patterns and file paths, as far as minimatch tells them apart here:
\* a top directory ("**" in a pattern: any) and an extension.
Glob(dir, ext) == [dir |-> dir, ext |-> ext]

\* minimatch(file, pattern, {matchBase: true})
Matches(file, pattern) ==
    /\ pattern.dir = "**" \/ pattern.dir = file.dir
    /\ pattern.ext = file.ext

allPaths == <<Glob("**", "js")>>

\* shared/pathsByLanguageVersion
es5Paths == <<Glob("npm", "js")>>

esNextPaths == <<Glob("packages", "js"), Glob("scripts", "js")>>

\* [...new Set(list)]: first occurrences, in order
RECURSIVE Dedupe(_)
Dedupe(list) ==
    IF list = <<>> THEN <<>>
    ELSE LET front == Dedupe(SubSeq(list, 1, Len(list) - 1))
             last  == list[Len(list)]
         IN  IF \E k \in 1..Len(front) : front[k] = last
             THEN front ELSE Append(front, last)

\* intersect(files, patterns)
RECURSIVE intersectAll(_, _)
intersectAll(fileList, patterns) ==
    IF patterns = <<>> THEN <<>>
    ELSE SelectSeq(fileList, LAMBDA f : Matches(f, Head(patterns)))
         \o intersectAll(fileList, Tail(patterns))

intersect(fileList, patterns) == Dedupe(intersectAll(fileList, patterns))

\* The engine's per-file result entries: `first` tells whether messages[0]
\* is the 'File ignored because of a matching ignore pattern' warning.
Entry(first, errors, warnings) ==
    [first |-> first, errorCount |-> errors, warningCount |-> warnings]

IgnoredEntry == Entry("ignored", 0, 1)

RECURSIVE Sum(_, _)
Sum(entries, field) ==
    IF entries = <<>> THEN 0 ELSE entries[1][field] + Sum(Tail(entries), field)

\* What cli.executeOnFiles returns for the given per-file results
EngineReport(results) ==
    [results |-> results,
     errorCount |-> Sum(results, "errorCount"),
     warningCount |-> Sum(results, "warningCount")]

\* formatter(messages): the formatter's name and one item per entry
EntryText(e) ==
    IF e.first = "ignored" THEN <<"I">>
    ELSE <<"e">> \o NumberToString(e.errorCount)
         \o <<"w">> \o NumberToString(e.warningCount)

RECURSIVE FormatEntries(_)
FormatEntries(entries) ==
    IF entries = <<>> THEN <<>>
    ELSE <<"[">> \o EntryText(Head(entries)) \o <<"]">> \o FormatEntries(Tail(entries))

Format(name, entries) == name \o <<":">> \o FormatEntries(entries) \o <<"\n">>

Junit == <<"j", "u", "n", "i", "t">>

\* The names cli.getFormatter resolves
KnownFormatters == {DEFAULT_FORMATTER_NAME, Junit}

\* A plausible slip: the suppressed entries still count as warnings.
runESLintOnFilesWithOptionsKeepCount(filePatterns, onlyChanged, options, cache, listed, report) ==
    LET compute == onlyChanged /\ cache = Null
        cache2  == IF compute THEN listed ELSE cache
        finalFilePatterns ==
            IF onlyChanged THEN intersect(cache2, filePatterns) ELSE filePatterns
        messages ==
            SelectSeq(report.results,
                      LAMBDA item : IF ~onlyChanged THEN TRUE
                                    ELSE ~(item.first = "ignored"))
    IN  [changedFiles |-> cache2,
         listCalls |-> IF compute THEN 1 ELSE 0,
         engineCall |-> [options |-> options, patterns |-> finalFilePatterns,
                         report |-> report, filePatterns |-> filePatterns,
                         onlyChanged |-> onlyChanged],
         result |-> [output |-> Format(formatterConfig.name, messages),
                     errorCount |-> report.errorCount,
                     warningCount |-> report.warningCount]]

\* A plausible slip: the changed-file list is recomputed on every call.
runESLintOnFilesWithOptionsNoCache(filePatterns, onlyChanged, options, cache, listed, report) ==
    LET cache2  == IF onlyChanged THEN listed ELSE cache
        finalFilePatterns ==
            IF onlyChanged THEN intersect(cache2, filePatterns) ELSE filePatterns
        messages ==
            SelectSeq(report.results,
                      LAMBDA item : IF ~onlyChanged THEN TRUE
                                    ELSE ~(item.first = "ignored"))
        ignoredMessageCount == Len(report.results) - Len(messages)
    IN  [changedFiles |-> cache2,
         listCalls |-> IF onlyChanged THEN 1 ELSE 0,
         engineCall |-> [options |-> options, patterns |-> finalFilePatterns,
                         report |-> report, filePatterns |-> filePatterns,
                         onlyChanged |-> onlyChanged],
         result |-> [output |-> Format(formatterConfig.name, messages),
                     errorCount |-> report.errorCount,
                     warningCount |-> report.warningCount - ignoredMessageCount]]

\* runESLintOnFilesWithOptions(filePatterns, onlyChanged, options) past the
\* formatter lookup.  cache: changedFiles before the call; listed: what
\* listChangedFiles() returns if invoked; report: what the engine returns.
runESLintOnFilesWithOptions(filePatterns, onlyChanged, options, cache, listed, report) ==
    LET compute == onlyChanged /\ cache = Null
        cache2  == IF compute THEN listed ELSE cache
        finalFilePatterns ==
            IF onlyChanged THEN intersect(cache2, filePatterns) ELSE filePatterns
        messages ==
            SelectSeq(report.results,
                      LAMBDA item : IF ~onlyChanged THEN TRUE
                                    ELSE ~(item.first = "ignored"))
        ignoredMessageCount == Len(report.results) - Len(messages)
    IN  [changedFiles |-> cache2,
         listCalls |-> IF compute THEN 1 ELSE 0,
         engineCall |-> [options |-> options, patterns |-> finalFilePatterns,
                         report |-> report, filePatterns |-> filePatterns,
                         onlyChanged |-> onlyChanged],
         result |-> [output |-> Format(formatterConfig.name, messages),
                     errorCount |-> report.errorCount,
                     warningCount |-> report.warningCount - ignoredMessageCount]]

\* s.split(sep) for a one-character separator
RECURSIVE split(_, _)
split(s, sep) ==
    LET i == IndexOf(s, sep, 1)
    IN  IF i = 0 THEN <<s>>
        ELSE <<SubSeq(s, 1, i - 1)>> \o split(SubSeq(s, i + 1, Len(s)), sep)

\* getFileNameWithIndex(fileName, index): split('.'), splice(1, 0, index, '.'),
\* join('')
getFileNameWithIndex(fileName, i) ==
    LET splitted == split(fileName, <<".">>)
    IN  splitted[1] \o NumberToString(i) \o <<".">> \o join(Tail(splitted), <<>>)

\* handleEslintOutput(output, index) of the multi-file revision, on the state
\* st = [files, dirs, tmp, threw]; writeOk: whether fs.writeFileSync succeeds.
handleEslintOutput(st, output, i, writeOk) ==
    IF formatterConfig.outputFile = <<>> THEN st
    ELSE LET fileName == getFileNameWithIndex(formatterConfig.outputFile, i)
             ds == createDirectoriesIfMissing(formatterConfig.outputFile, st.dirs)
         IN  IF writeOk
             THEN [files |-> WriteFile(st.files, fileName, output), dirs |-> ds,
                   tmp |-> Append(st.tmp, fileName), threw |-> FALSE]
             ELSE [st EXCEPT !.dirs = ds, !.threw = TRUE]

\* handleEslintOutput(output) of the single-file revision
handleEslintOutputSingleFile(st, output, writeOk) ==
    IF formatterConfig.outputFile = <<>> THEN st
    ELSE IF writeOk
    THEN [st EXCEPT !.files = WriteFile(st.files, formatterConfig.outputFile, output)]
    ELSE [st EXCEPT !.threw = TRUE]

\* The forEach over the three results: handleEslintOutput(result.output, index)
\* for index 0, 1, 2, left at the first write that throws (the failAt-th).
RECURSIVE handleEach(_, _, _, _)
handleEach(st, results, i, failAt) ==
    IF i >= Len(results) \/ st.threw THEN st
    ELSE handleEach(handleEslintOutput(st, results[i + 1].output, i, failAt # i + 1),
                    results, i + 1, failAt)

\* A plausible slip: warnings do not fail the run.
lintSucceededErrorsOnly(results) == Sum(results, "errorCount") = 0

\* return errorCount === 0 && warningCount === 0, the counts summed over the
\* bucket results
lintSucceeded(results) ==
    Sum(results, "errorCount") = 0 /\ Sum(results, "warningCount") = 0

DefaultOptions ==
    [configFile |-> "eslintrc.default.js", ignorePattern |-> es5Paths \o esNextPaths]

EsNextOptions == [configFile |-> "eslintrc.esnext.js", ignorePattern |-> <<>>]

Es5Options == [configFile |-> "eslintrc.es5.js", ignorePattern |-> <<>>]

\* The array literal of runESLint: the three calls, evaluated left to right,
\* each seeing the cache the previous one left.
RunBuckets(onlyChanged, listed, reports) ==
    LET b1 == runESLintOnFilesWithOptions(allPaths, onlyChanged, DefaultOptions,
                                          changedFiles, listed, reports[1])
        b2 == runESLintOnFilesWithOptions(esNextPaths, onlyChanged, EsNextOptions,
                                          b1.changedFiles, listed, reports[2])
        b3 == runESLintOnFilesWithOptions(es5Paths, onlyChanged, Es5Options,
                                          b2.changedFiles, listed, reports[3])
    IN  <<b1, b2, b3>>

\* Inputs explored
OnlyChangedArgs == {"true", "false", "undefined"}

ChangedFileLists ==
    { <<>>,
      <<Glob("npm", "js"), Glob("packages", "js"), Glob("src", "js"),
        Glob("packages", "md")>> }

\* runESLint({onlyChanged}).  Reports: the engine reports drawn for the three
\* buckets; maxRuns bounds the number of calls explored.  listed is drawn
\* only when listChangedFiles() is invoked, failAt only when a file is written.
RunESLint(Reports, maxRuns) ==
    /\ task = "lint"
    /\ proc = Running
    /\ lintRuns < maxRuns
    /\ \E arg \in OnlyChangedArgs :
          IF arg \notin {"true", "false"}
          THEN /\ lastCall' = Call("runESLint", <<>>, "none",
                                   Threw("Pass options.onlyChanged as a boolean."))
               /\ UNCHANGED <<fsVars, eslintTemporaryFiles, changedFiles, diffCalls,
                              engineCalls, lintResults>>
          ELSE IF formatterConfig.name \notin KnownFormatters
          THEN /\ lastCall' = Call("runESLint", <<>>, "none",
                                   Threw("Could not find formatter"))
               /\ UNCHANGED <<fsVars, eslintTemporaryFiles, changedFiles, diffCalls,
                              engineCalls, lintResults>>
          ELSE \E listed \in (IF arg = "true" /\ changedFiles = Null
                              THEN ChangedFileLists ELSE {<<>>}),
                  reports \in [1..3 -> Reports],
                  failAt \in (IF formatterConfig.outputFile = <<>>
                              THEN {0} ELSE 0..3) :
                  LET onlyChanged == (arg = "true")
                      buckets == RunBuckets(onlyChanged, listed, reports)
                      results == <<buckets[1].result, buckets[2].result,
                                   buckets[3].result>>
                      st0     == [files |-> files, dirs |-> dirs,
                                  tmp |-> eslintTemporaryFiles, threw |-> FALSE]
                      output  == results[1].output \o results[2].output
                                 \o results[3].output
                      st      == IF lintVariant = "multiFile"
                                 THEN handleEach(st0, results, 0, failAt)
                                 ELSE handleEslintOutputSingleFile(st0, output,
                                                                   failAt = 0)
                  IN  /\ changedFiles' = buckets[3].changedFiles
                      /\ diffCalls' = diffCalls + buckets[1].listCalls
                                      + buckets[2].listCalls + buckets[3].listCalls
                      /\ engineCalls' = <<buckets[1].engineCall, buckets[2].engineCall,
                                          buckets[3].engineCall>>
                      /\ lintResults' = results
                      /\ files' = st.files
                      /\ dirs' = st.dirs
                      /\ eslintTemporaryFiles' = st.tmp
                      /\ lastCall' = Call("runESLint", <<>>, "none",
                                          IF st.threw
                                          THEN Threw("fs.writeFileSync failed")
                                          ELSE Returned(lintSucceeded(results)))
    /\ lintRuns' = lintRuns + 1
    /\ UNCHANGED <<pureVars, envVars, reportVars, flowVars, proc>>

----------------------------------------------------------------------------
(* The lint task alone: runESLint calls with a range of engine reports     *)

MaxLintRuns == 2

EngineReports ==
    { EngineReport(<<Entry("none", 0, 0)>>),
      EngineReport(<<Entry("rule", 1, 0), IgnoredEntry>>),
      EngineReport(<<IgnoredEntry, Entry("rule", 0, 2), IgnoredEntry>>) }

\* Console-only invocations: the default formatter, junit, an unknown name.
LintArgvs ==
    { <<>>,
      <<FORMATTER_FLAG \o Junit>>,
      <<FORMATTER_FLAG \o <<"c">>>> }

InitLint ==
    /\ REPORT_FORMATTER = ""
    /\ REPORT_DIR = <<"r">>
    /\ task = "lint"
    /\ lintVariant \in {"multiFile", "singleFile"}
    /\ \E argv \in LintArgvs :
          formatterConfig = getFormatterConfigFromProcessArgs(argv)
    /\ MainStart
    /\ ArgsIdle /\ XmlIdle /\ NameIdle

NextLint == RunESLint(EngineReports, MaxLintRuns)

SpecLint == InitLint /\ [][NextLint]_vars

----------------------------------------------------------------------------
(* A run of the process: library calls and events in any order             *)

MaxMainLintRuns == 1

MainReports ==
    { EngineReport(<<Entry("none", 0, 0)>>),
      EngineReport(<<Entry("rule", 1, 0), IgnoredEntry>>) }

ReportFormatters == {"junit", "stylish"}

\* The scripts a node process of the build runs: tasks/flow.js, the lint task
\* (runESLint) and a task that writes and merges partial reports.
Tasks == {"flow", "lint", "report"}

ReportDirs == {<<"r">>}

ProcessArgvs ==
    { <<>>,
      <<FORMATTER_FLAG \o Junit, OUTPUT_FLAG \o <<"o", "/", "l", ".", "x", "m", "l">>>> }

Init ==
    /\ REPORT_FORMATTER \in ReportFormatters
    /\ REPORT_DIR \in ReportDirs
    /\ task \in Tasks
    /\ lintVariant \in (IF task = "lint" THEN {"multiFile", "singleFile"}
                        ELSE {"multiFile"})
    /\ \E argv \in ProcessArgvs :
          formatterConfig = getFormatterConfigFromProcessArgs(argv)
    /\ MainStart
    /\ ArgsIdle /\ XmlIdle /\ NameIdle

Next ==
    \/ WritePartialJunitReport
    \/ MergePartialJunitReports
    \/ RunESLint(MainReports, MaxMainLintRuns)
    \/ FlowStdoutData
    \/ FlowClose

Spec == Init /\ [][Next]_vars

----------------------------------------------------------------------------
(* Properties                                                              *)

Range(s) == {s[i] : i \in 1..Len(s)}

LintReturned == lastCall.op = "runESLint" /\ lastCall.outcome.kind = "returned"

\* C4: runESLint runs exactly three bucket analyses, in the order default,
\* esNext, es5, and returns true exactly when the three buckets' error counts
\* sum to 0 and their warning counts sum to 0; any bucket with an error or a
\* warning makes the result false.
C4_ThreeBucketsAllClean ==
    LintReturned =>
        /\ Len(engineCalls) = 3
        /\ engineCalls[1].options.configFile = "eslintrc.default.js"
        /\ engineCalls[1].options.ignorePattern = es5Paths \o esNextPaths
        /\ engineCalls[2].options.configFile = "eslintrc.esnext.js"
        /\ engineCalls[3].options.configFile = "eslintrc.es5.js"
        /\ Len(lintResults) = 3
        /\ lastCall.outcome.value =
              ( /\ lintResults[1].errorCount + lintResults[2].errorCount
                   + lintResults[3].errorCount = 0
                /\ lintResults[1].warningCount + lintResults[2].warningCount
                   + lintResults[3].warningCount = 0 )
        /\ (\E k \in 1..3 : lintResults[k].errorCount > 0
                            \/ lintResults[k].warningCount > 0)
              => lastCall.outcome.value = FALSE

\* The buckets report (1,0), (0,2), (0,0) and runESLint has returned false.
C4_Witness ==
    /\ LintReturned
    /\ lastCall.outcome.value = FALSE
    /\ lintResults[1].errorCount = 1 /\ lintResults[1].warningCount = 0
    /\ lintResults[2].errorCount = 0 /\ lintResults[2].warningCount = 2
    /\ lintResults[3].errorCount = 0 /\ lintResults[3].warningCount = 0

JUnitDisabled == REPORT_FORMATTER # "junit"

\* C5: while JUnit mode is disabled no report file exists on disk and no
\* partial report is registered, whatever writePartialJunitReport,
\* mergePartialJunitReports, lint-output handling (with or without --output)
\* and type-checker events have run; nothing was merged or deleted.
C5_NoReportFilesOutsideJUnit ==
    JUnitDisabled =>
        /\ files = {}
        /\ reportFileNames = <<>>
        /\ eslintTemporaryFiles = <<>>
        /\ mergeRuns = 0
        /\ unlinkLog = <<>>

\* C5 as amended: outside JUnit mode the reporting calls and the type-checker
\* events write, register, merge and delete nothing; the only files are the
\* lint results that lint-output handling writes when --output is given,
\* which the multi-file revision also registers.
C5_OnlyLintOutputOutsideJUnit ==
    JUnitDisabled =>
        /\ reportFileNames = <<>>
        /\ mergeRuns = 0
        /\ unlinkLog = <<>>
        /\ formatterConfig.outputFile = <<>> =>
              files = {} /\ eslintTemporaryFiles = <<>>
        /\ \A f \in files :
              /\ task = "lint"
              /\ lastCall.op = "runESLint"
              /\ IF lintVariant = "multiFile"
                 THEN f.path \in Range(eslintTemporaryFiles)
                 ELSE f.path = formatterConfig.outputFile

\* JUnit mode is disabled, --output is given, and runESLint has written and
\* registered its three result files.
C5_Witness ==
    /\ JUnitDisabled
    /\ LintReturned
    /\ lintVariant = "multiFile"
    /\ Len(eslintTemporaryFiles) = 3
    /\ \A i \in 1..3 : Exists(files, eslintTemporaryFiles[i])

MergeReturned ==
    /\ REPORT_FORMATTER = "junit"
    /\ lastCall.op = "mergePartialJunitReports"
    /\ lastCall.outcome.kind = "returned"

\* C6: in JUnit mode, whenever mergePartialJunitReports returns normally none
\* of the partial report files of the registry exists on disk any more.
C6_NoPartialLeftAfterMerge ==
    MergeReturned =>
        \A i \in 1..Len(reportFileNames) : ~Exists(files, reportFileNames[i])

\* C6 as amended: when mergePartialJunitReports returns normally a deletion
\* was attempted for every file of the registry, every file whose deletion
\* succeeded is gone, and a file still on disk is one whose deletion failed.
C6_DeletedPartialsAreGone ==
    MergeReturned =>
        /\ Len(unlinkLog) = Len(reportFileNames)
        /\ \A i \in 1..Len(unlinkLog) :
              /\ unlinkLog[i].file = reportFileNames[i]
              /\ unlinkLog[i].deleted => ~Exists(files, unlinkLog[i].file)
        /\ \A i \in 1..Len(reportFileNames) :
              Exists(files, reportFileNames[i]) =>
                 \E j \in 1..Len(unlinkLog) :
                    unlinkLog[j].file = reportFileNames[i] /\ ~unlinkLog[j].deleted

\* A merge has returned after deleting one partial report and failing to
\* delete another, which is still on disk.
C6_Witness ==
    /\ MergeReturned
    /\ \E i, j \in 1..Len(unlinkLog) :
          /\ unlinkLog[i].deleted /\ ~Exists(files, unlinkLog[i].file)
          /\ ~unlinkLog[j].deleted /\ Exists(files, unlinkLog[j].file)

\* C7: in JUnit mode, when the merge utility fails, mergePartialJunitReports
\* throws an error naming the build step and the canonical report path and
\* cleans nothing up: no file is deleted and the registry is unchanged.
C7_MergeFailureIsFatal ==
    [][ (lastCall'.op = "mergePartialJunitReports" /\ lastCall'.exec = "failed") =>
            /\ lastCall'.outcome.kind = "threw"
            /\ Includes(lastCall'.outcome.message, lastCall'.step)
            /\ Includes(lastCall'.outcome.message, reportFilePath(lastCall'.step))
            /\ files' = files
            /\ dirs' = dirs
            /\ reportFileNames' = reportFileNames
            /\ unlinkLog' = <<>> ]_vars

\* The merge utility has failed with two partial reports registered and on
\* disk.
C7_Witness ==
    /\ REPORT_FORMATTER = "junit"
    /\ lastCall.op = "mergePartialJunitReports"
    /\ lastCall.exec = "failed"
    /\ Len(reportFileNames) = 2
    /\ reportFileNames[1] # reportFileNames[2]
    /\ \A i \in 1..2 : Exists(files, reportFileNames[i])

\* C8: in JUnit mode, after a successful merge a deletion is attempted for
\* every path of the list exactly once and in list order; a failed deletion
\* raises nothing and does not stop the others, and the call returns normally.
C8_EveryPathUnlinkedOnceInOrder ==
    ( /\ REPORT_FORMATTER = "junit"
      /\ lastCall.op = "mergePartialJunitReports"
      /\ lastCall.exec = "ok" ) =>
        /\ lastCall.outcome.kind = "returned"
        /\ [i \in 1..Len(unlinkLog) |-> unlinkLog[i].file] = reportFileNames

\* A successful merge whose first deletion failed on a file that exists and
\* whose second deletion succeeded.
C8_Witness ==
    /\ REPORT_FORMATTER = "junit"
    /\ lastCall.op = "mergePartialJunitReports"
    /\ lastCall.exec = "ok"
    /\ lastCall.outcome.kind = "returned"
    /\ Len(unlinkLog) = 2
    /\ ~unlinkLog[1].deleted /\ Exists(files, unlinkLog[1].file)
    /\ unlinkLog[2].deleted

FlowClosed == lastCall.op = "flow.close"

FailureBodyOf(d) ==
    <<"\n">> \o d \o <<"\n", " ", " ", " ", " ", " ", " ">>

\* C10: in JUnit mode, when the type-checker closes with a non-zero code the
\* report written for build step 'flow' has errors="1" and a failure body equal
\* to all stdout chunks concatenated in arrival order.
C10_FailureBodyIsWholeOutput ==
    ( /\ FlowClosed
      /\ REPORT_FORMATTER = "junit"
      /\ lastCall.outcome.value # 0
      /\ Exists(files, reportFilePath(FlowStep)) ) =>
        /\ AttributeValue(Content(files, reportFilePath(FlowStep)), ErrorsAttr) = <<"1">>
        /\ CDataBody(Content(files, reportFilePath(FlowStep)))
              = FailureBodyOf(join(stdoutChunks, <<>>))

\* What the code does: the failure body is the LAST chunk alone.
C10_FailureBodyIsLastChunk ==
    ( /\ FlowClosed
      /\ REPORT_FORMATTER = "junit"
      /\ lastCall.outcome.value # 0
      /\ Exists(files, reportFilePath(FlowStep)) ) =>
        /\ AttributeValue(Content(files, reportFilePath(FlowStep)), ErrorsAttr) = <<"1">>
        /\ stdoutChunks # <<>>
        /\ CDataBody(Content(files, reportFilePath(FlowStep)))
              = FailureBodyOf(stdoutChunks[Len(stdoutChunks)])

FlowReport == reportFilePath(FlowStep)

\* C11: in JUnit mode every run of the flow task, whatever the number of stdout
\* data events before close (zero included), has written the JUnit report of
\* build step 'flow' once the type-checker has closed, with errors="0" exactly
\* when the exit code is 0, and no report exists before the close event.
\* Stated for the runs whose report write does not throw.
C11_OneReportPerRun ==
    (task = "flow" /\ REPORT_FORMATTER = "junit") =>
        /\ ~FlowClosed => ~Exists(files, FlowReport)
        /\ (FlowClosed /\ lastCall.exec # "failed") =>
              /\ Exists(files, FlowReport)
              /\ AttributeValue(Content(files, FlowReport), ErrorsAttr)
                    = (IF lastCall.outcome.value = 0 THEN <<"0">> ELSE <<"1">>)

\* What the code does: the report is written at close only when at least one
\* stdout data event was received; with none, createReport is still the no-op
\* and the run ends without a report.
C11_ReportOnlyAfterOutput ==
    (task = "flow" /\ REPORT_FORMATTER = "junit") =>
        /\ ~FlowClosed => ~Exists(files, FlowReport)
        /\ (FlowClosed /\ lastCall.exec # "failed" /\ stdoutChunks # <<>>) =>
              /\ Exists(files, FlowReport)
              /\ AttributeValue(Content(files, FlowReport), ErrorsAttr)
                    = (IF lastCall.outcome.value = 0 THEN <<"0">> ELSE <<"1">>)
        /\ (FlowClosed /\ stdoutChunks = <<>>) => ~Exists(files, FlowReport)

\* C12: over the runESLintOnFilesWithOptions calls of one process
\* listChangedFiles is invoked at most once: by the first call with onlyChanged
\* true, which fills the cache; every later call with onlyChanged true reuses
\* the cached list and narrows its bucket with it; a call with onlyChanged
\* false does not invoke it and hands the bucket's patterns to the engine as
\* they are.
C12_DiffProviderInvokedOnce ==
    [][ /\ diffCalls' <= 1
        /\ (changedFiles = Null) <=> (diffCalls = 0)
        /\ changedFiles # Null =>
              (changedFiles' = changedFiles /\ diffCalls' = diffCalls)
        /\ (lintRuns' # lintRuns /\ engineCalls' # engineCalls) =>
              \A k \in 1..Len(engineCalls') :
                  LET c == engineCalls'[k]
                  IN  IF c.onlyChanged
                      THEN /\ changedFiles' # Null
                           /\ diffCalls' = 1
                           /\ c.patterns = intersect(changedFiles', c.filePatterns)
                      ELSE /\ c.patterns = c.filePatterns
                           /\ diffCalls' = diffCalls
                           /\ changedFiles' = changedFiles
      ]_vars

\* Two runESLint calls were made; the last ran its three buckets with
\* onlyChanged true on a non-empty cached list fetched once, and the esNext
\* bucket was narrowed to the changed file it matches.
C12_Witness ==
    /\ lintRuns = 2
    /\ diffCalls = 1
    /\ changedFiles # Null /\ changedFiles # <<>>
    /\ Len(engineCalls) = 3
    /\ \A k \in 1..3 : engineCalls[k].onlyChanged
    /\ engineCalls[2].patterns = <<Glob("packages", "js")>>
    /\ engineCalls[3].patterns = <<Glob("npm", "js")>>

\* The number of 'file ignored by pattern' entries of an engine report
IgnoredCount(report) ==
    Cardinality({i \in 1..Len(report.results) : report.results[i].first = "ignored"})

IgnoredText == <<"[", "I", "]">>

\* The number of entries the formatted output shows
ShownCount(output) == Cardinality(Occurrences(output, <<"[">>, 1))

\* C13: for every engine report runESLintOnFilesWithOptions returns the
\* engine's error count and a warning count that is never negative; with
\* onlyChanged false every result entry is formatted and the warning count is
\* the engine's; with onlyChanged true every 'file ignored by pattern' entry is
\* left out of the formatted output, the other entries are kept, and the
\* warning count is the engine's less one per entry left out.
C13_IgnoredEntriesSuppressed ==
    LintReturned =>
        \A k \in 1..Len(lintResults) :
            LET res    == lintResults[k]
                call   == engineCalls[k]
                report == call.report
            IN  /\ res.errorCount = report.errorCount
                /\ res.warningCount >= 0
                /\ IF call.onlyChanged
                   THEN /\ Cardinality(Occurrences(res.output, IgnoredText, 1)) = 0
                        /\ ShownCount(res.output)
                              = Len(report.results) - IgnoredCount(report)
                        /\ res.warningCount
                              = report.warningCount - IgnoredCount(report)
                   ELSE /\ Cardinality(Occurrences(res.output, IgnoredText, 1)) = IgnoredCount(report)
                        /\ ShownCount(res.output) = Len(report.results)
                        /\ res.warningCount = report.warningCount

\* A changed-files run whose default bucket got two ignored entries around a
\* file with two warnings (both left out, warning count 4 - 2 = 2) and whose
\* esNext bucket got one ignored entry beside a file with one error (warning
\* count 1 - 1 = 0).
C13_Witness ==
    /\ LintReturned
    /\ engineCalls[1].onlyChanged
    /\ IgnoredCount(engineCalls[1].report) = 2
    /\ engineCalls[1].report.warningCount = 4
    /\ lintResults[1].warningCount = 2
    /\ ShownCount(lintResults[1].output) = 1
    /\ IgnoredCount(engineCalls[2].report) = 1
    /\ engineCalls[2].report.warningCount = 1
    /\ lintResults[2].warningCount = 0
    /\ lintResults[2].errorCount = 1
    /\ Cardinality(Occurrences(lintResults[2].output, IgnoredText, 1)) = 0

\* The partial report path of a build step and an index
PartialPath(buildStep, i) ==
    getPartialJUnitReportFileName(reportFilePath(buildStep), i)

WrotePartial == lastCall.op = "writePartialJunitReport"

\* C14: in JUnit mode, over any sequence of writePartialJunitReport calls the
\* registry only grows at its end: a call that completes appends exactly one
\* path, whose file is then on disk, and a call that fails appends nothing;
\* before any merge every registered path names a file that exists and is the
\* partial path of a build step and an index, never the canonical merged
\* report path; the partial paths of distinct indices of a build step differ.
C14_RegistryConsistentWithDisk ==
    /\ []( (task = "report" /\ REPORT_FORMATTER = "junit" /\ mergeRuns = 0) =>
             /\ \A k \in 1..Len(reportFileNames) :
                   /\ Exists(files, reportFileNames[k])
                   /\ \E st \in BuildSteps, i \in 0..MaxPartialIndex :
                         PartialPath(st, i) = Returned(reportFileNames[k])
                   /\ \A st \in BuildSteps : reportFileNames[k] # reportFilePath(st)
             /\ \A st \in BuildSteps, i, j \in 0..MaxPartialIndex :
                   i # j => PartialPath(st, i) # PartialPath(st, j) )
    /\ [][ /\ Len(reportFileNames') >= Len(reportFileNames)
           /\ SubSeq(reportFileNames', 1, Len(reportFileNames)) = reportFileNames
           /\ (lastCall'.op = "writePartialJunitReport" /\ REPORT_FORMATTER = "junit") =>
                 IF lastCall'.outcome.kind = "returned"
                 THEN /\ Len(reportFileNames') = Len(reportFileNames) + 1
                      /\ Exists(files', reportFileNames'[Len(reportFileNames')])
                 ELSE reportFileNames' = reportFileNames
         ]_vars

\* Two partial reports of the eslint step, indices 0 and 1, were written and
\* registered in that order; both files are on disk and no merge has run.
C14_Witness ==
    /\ REPORT_FORMATTER = "junit"
    /\ WrotePartial
    /\ lastCall.outcome.kind = "returned"
    /\ mergeRuns = 0
    /\ reportFileNames = <<PartialPath(EslintStep, 0).value,
                           PartialPath(EslintStep, 1).value>>
    /\ Exists(files, reportFileNames[1])
    /\ Exists(files, reportFileNames[2])

====
